---- MODULE Spec2Model ----
(***************************************************************************)
(* nanoELS-flow: electronic lead screw controller.                         *)
(*                                                                         *)
(* Model of MinimalMotionControl (spindle tracker, two stepper axes,       *)
(* emergency stop) and of OperationManager (setup workflow and multi-pass  *)
(* cutting state machine) in src/nanoELS-flow.                             *)
(*                                                                         *)
(* Every public method is one atomic action: the firmware polls its        *)
(* inputs from one loop (WebInterface::update calls webSocket->loop()),    *)
(* so handlers never interleave.  The sketch that owns the loop is not     *)
(* part of the sources; the order in which it calls                        *)
(* MinimalMotionControl::update and OperationManager::update is therefore  *)
(* left open: both are actions that may fire in any order.                 *)
(*                                                                         *)
(* Abstractions                                                            *)
(*  - micros(), currentSpeed and lastStepTime only decide WHEN a step is   *)
(*    due (updateAxisMotion, line 254); the test is a nondeterministic     *)
(*    input `due` of the tick.                                             *)
(*  - float values that hold lengths in mm are kept as exact integers in   *)
(*    deci-microns (1 mm = 10000 du); round() is Round below.              *)
(*  - GPIO writes and Serial output are not state.                         *)
(***************************************************************************)
EXTENDS Integers, Sequences, FiniteSets, TLC

(***************************************************************************)
(* Program constants                                                       *)
(***************************************************************************)
AXIS_X == 0
AXIS_Z == 1
AxisIds == {AXIS_X, AXIS_Z}

ENCODER_PPR == 600
ENCODER_STEPS_INT == ENCODER_PPR * 2
ENCODER_BACKLASH == 3
PCNT_LIM == 30000

SCREW_Z_DU == 50000
MOTOR_STEPS_Z == 4000
SCREW_X_DU == 40000
MOTOR_STEPS_X == 4000

\* SetupConstants.cpp: the same for both axes (MOTOR_STEPS_X = MOTOR_STEPS_Z)
SPEED_START == 4000
ACCELERATION == 100000
SPEED_MANUAL_MOVE == 32000

LONG_MAX == 2147483647
LONG_MIN == -2147483647 - 1

motorSteps(axis) == IF axis = AXIS_X THEN MOTOR_STEPS_X ELSE MOTOR_STEPS_Z
screwPitch(axis) == IF axis = AXIS_X THEN SCREW_X_DU ELSE SCREW_Z_DU

(***************************************************************************)
(* Bounds of the model                                                     *)
(***************************************************************************)
\* largest |target| an operator command may ask for (setTargetPosition, moveRelative)
MaxTarget == 2
\* largest |spindle.position| the encoder is driven to while a job is set up and run
MaxSpindle == 25
\* the spindle tracker is explored in windows of this half-width ...
MaxSpindleWin == 6
\* ... around the multiples of SpinBlock up to this one
MaxBlocks == 4
\* most digits the operator types into the numpad
MaxDigits == 1
MaxRun == 5
MaxThreadSpindle == 125
MaxMappingSpindle == 24
\* the speed ramp is followed up to SPEED_START + MaxRamp steps per second
MaxRamp == 25
\* capacity N of the circular buffer (a power of two)
BufferSize == 4
\* items the producer offers to the buffer
MaxPushes == 6
\* commands that wait in the command queue
MaxQueue == 3
MaxJobSpindle == 360000

(***************************************************************************)
(* Arithmetic helpers (C semantics)                                        *)
(***************************************************************************)
Abs(x) == IF x < 0 THEN -x ELSE x
Sgn(x) == IF x < 0 THEN -1 ELSE IF x > 0 THEN 1 ELSE 0
\* C integer division and double->integer conversion truncate toward zero
TruncDiv(a, b) == Sgn(a) * Sgn(b) * (Abs(a) \div Abs(b))
\* round(n/d): half away from zero
Round(n, d) ==
    LET q == Abs(n) \div Abs(d)
        r == Abs(n) % Abs(d)
    IN  Sgn(n) * Sgn(d) * (IF 2 * r >= Abs(d) THEN q + 1 ELSE q)

RECURSIVE GCD(_, _)
GCD(a, b) == IF b = 0 THEN a ELSE GCD(b, a % b)

VARIABLES
    emergencyStop,   \* MinimalMotionControl::emergencyStop
    axes,            \* MinimalMotionControl::axes[2]
    spindle,         \* MinimalMotionControl::spindle
    pcntCount,       \* hardware pulse counter PCNT_UNIT_0 (written by the encoder)
    op,              \* OperationManager fields
    lastCall,        \* name (and result) of the most recent call
    speed,           \* MinimalAxis speed fields of each axis (the speed ramp)
    ring,            \* a CircularBuffer<T, N> with its producer and consumer
    queued           \* the queued MotionControl variant

\* The speed ramp only decides when a step is due, which update() takes as
\* dueX and dueZ; the circular buffer and the queued MotionControl are
\* separate classes.  Each has a specification of its own and stays as
\* constructed in the others.
vars == <<emergencyStop, axes, spindle, pcntCount, op, lastCall, speed, ring, queued>>

\* the controller as one value: handlers are functions from machine to machine
Cur ==
    [emergencyStop |-> emergencyStop, axes |-> axes, spindle |-> spindle,
     pcntCount |-> pcntCount, op |-> op]

Commit(m, call) ==
    /\ emergencyStop' = m.emergencyStop
    /\ axes' = m.axes
    /\ spindle' = m.spindle
    /\ pcntCount' = m.pcntCount
    /\ op' = m.op
    /\ lastCall' = call
    /\ UNCHANGED <<speed, ring, queued>>

(***************************************************************************)
(* MinimalMotionControl                                                    *)
(***************************************************************************)
InitAxis ==
    [position |-> 0, targetPosition |-> 0, moving |-> FALSE,
     leftStop |-> LONG_MAX, rightStop |-> LONG_MIN, enabled |-> FALSE]

InitSpindle ==
    [position |-> 0, positionAvg |-> 0, lastCount |-> 0,
     threadPitch |-> 0, threadStarts |-> 1, threadingActive |-> FALSE]

\* positionFromSpindle: int32 product and quotient, then double arithmetic,
\* converted back to int32 by truncation, then clamped to the stops
positionFromSpindleOf(a, sp, axis, spindlePos) ==
    LET q == TruncDiv(spindlePos * motorSteps(axis), screwPitch(axis))
        newPos == TruncDiv(q * sp.threadPitch * sp.threadStarts, ENCODER_STEPS_INT)
        lo == IF newPos < a[axis].rightStop THEN a[axis].rightStop ELSE newPos
    IN  IF lo > a[axis].leftStop THEN a[axis].leftStop ELSE lo

positionFromSpindle(axis, spindlePos) ==
    positionFromSpindleOf(axes, spindle, axis, spindlePos)

\* spindleFromPosition: the int32 product axisPos * screwPitch, then double
\* arithmetic (exact here), converted to int32 by truncation; the factor
\* screwPitch * ENCODER_STEPS / motorSteps is reduced first to keep the
\* products small.  Not defined for threadPitch = 0 (division by zero).
spindleFromPositionOf(sp, axis, axisPos) ==
    LET g == GCD(screwPitch(axis) * ENCODER_STEPS_INT, motorSteps(axis))
    IN  TruncDiv(axisPos * ((screwPitch(axis) * ENCODER_STEPS_INT) \div g),
                 (motorSteps(axis) \div g) * sp.threadPitch * sp.threadStarts)

spindleFromPosition(axis, axisPos) == spindleFromPositionOf(spindle, axis, axisPos)

\* variant of the filter that never lets positionAvg follow a reversal
BacklashFilterForwardOnly(sp, delta) ==
    LET p == sp.position + delta
    IN  IF p > sp.positionAvg
          THEN [sp EXCEPT !.position = p, !.positionAvg = p]
          ELSE [sp EXCEPT !.position = p]

\* variant of the filter whose forward branch copies the position of the
\* previous read
BacklashFilterStale(sp, delta) ==
    LET p == sp.position + delta
    IN  IF p > sp.positionAvg
          THEN [sp EXCEPT !.position = p, !.positionAvg = sp.position]
          ELSE IF p < sp.positionAvg - ENCODER_BACKLASH
                 THEN [sp EXCEPT !.position = p, !.positionAvg = p + ENCODER_BACKLASH]
                 ELSE [sp EXCEPT !.position = p]

\* variant of the filter whose reverse branch leaves one tick less than the
\* deadband
BacklashFilterShortDeadband(sp, delta) ==
    LET p == sp.position + delta
    IN  IF p > sp.positionAvg
          THEN [sp EXCEPT !.position = p, !.positionAvg = p]
          ELSE IF p < sp.positionAvg - ENCODER_BACKLASH
                 THEN [sp EXCEPT !.position = p,
                                 !.positionAvg = p + ENCODER_BACKLASH - 1]
                 ELSE [sp EXCEPT !.position = p]

\* the backlash filter of updateSpindleTracking (lines 186-196)
BacklashFilter(sp, delta) ==
    LET p == sp.position + delta
    IN  IF p > sp.positionAvg
          THEN [sp EXCEPT !.position = p, !.positionAvg = p]
          ELSE IF p < sp.positionAvg - ENCODER_BACKLASH
                 THEN [sp EXCEPT !.position = p, !.positionAvg = p + ENCODER_BACKLASH]
                 ELSE [sp EXCEPT !.position = p]

\* updateSpindleTracking: result is <<spindle', pcntCount'>>
SpindleTracked(sp, count) ==
    LET delta == count - sp.lastCount
    IN  IF delta = 0
          THEN <<sp, count>>
          ELSE IF count >= PCNT_LIM \/ count <= -PCNT_LIM
                 THEN <<BacklashFilter([sp EXCEPT !.lastCount = 0], delta), 0>>
                 ELSE <<BacklashFilter([sp EXCEPT !.lastCount = count], delta), count>>

\* variant of generateStepPulse that takes all remaining steps at once
StepPulseToTarget(ax) == [ax EXCEPT !.position = ax.targetPosition]

\* generateStepPulse: one step toward the target
StepPulse(ax) ==
    LET stepsToGo == ax.targetPosition - ax.position
    IN  IF stepsToGo = 0 THEN ax
        ELSE IF stepsToGo > 0 THEN [ax EXCEPT !.position = @ + 1]
                              ELSE [ax EXCEPT !.position = @ - 1]

\* updateAxisMotion; due = "the step interval has elapsed"
AxisMotion(ax, due) ==
    IF ax.targetPosition - ax.position = 0
      THEN [ax EXCEPT !.moving = FALSE]
      ELSE IF due THEN StepPulse([ax EXCEPT !.moving = TRUE])
                  ELSE [ax EXCEPT !.moving = TRUE]

\* variant of the loop body that does not look at the enabled flag
AxisTickAnyAxis(a, sp, axis, due) ==
    AxisMotion(IF sp.threadingActive /\ sp.threadPitch # 0
                 THEN [a[axis] EXCEPT !.targetPosition =
                          positionFromSpindleOf(a, sp, axis, sp.positionAvg)]
                 ELSE a[axis],
               due)

\* the per-axis body of the loop in update() (lines 214-228); no MPG is active
AxisTick(a, sp, axis, due) ==
    IF ~a[axis].enabled THEN a[axis]
    ELSE LET followed ==
                 IF sp.threadingActive /\ sp.threadPitch # 0
                   THEN [a[axis] EXCEPT !.targetPosition =
                            positionFromSpindleOf(a, sp, axis, sp.positionAvg)]
                   ELSE a[axis]
         IN  AxisMotion(followed, due)

\* variant of stopAxis that pins the target but leaves the moving flag
stopAxisTargetOnly(ax) == [ax EXCEPT !.targetPosition = ax.position]

stopAxis(ax) == [ax EXCEPT !.targetPosition = ax.position, !.moving = FALSE]

stopAllAxes(a) == [i \in AxisIds |-> stopAxis(a[i])]

stopThreading(sp) == [sp EXCEPT !.threadingActive = FALSE]

startThreading(sp) == [sp EXCEPT !.threadingActive = TRUE]

\* setThreadPitch(dupr, starts = 1): the default argument resets the starts
setThreadPitch(sp, dupr, starts) ==
    [sp EXCEPT !.threadPitch = dupr, !.threadStarts = starts]

setStarts(sp, starts) == [sp EXCEPT !.threadStarts = starts]

\* variant of setTargetPosition that stores a target one step further out
setTargetPositionOvershoot(m, axis, steps) ==
    [m EXCEPT !.axes[axis].targetPosition = steps + Sgn(steps)]

setTargetPosition(m, axis, steps) ==
    [m EXCEPT !.axes[axis].targetPosition = steps]

moveRelative(m, axis, steps) ==
    [m EXCEPT !.axes[axis].targetPosition = @ + steps]

setEmergencyStop(m, stop) ==
    IF stop
      THEN [m EXCEPT !.emergencyStop = TRUE,
                     !.axes = stopAllAxes(@),
                     !.spindle = stopThreading(@)]
      ELSE [m EXCEPT !.emergencyStop = FALSE]

setSoftLimits(m, axis, leftLimit, rightLimit) ==
    [m EXCEPT !.axes[axis].leftStop = leftLimit, !.axes[axis].rightStop = rightLimit]

enableAxis(m, axis) == [m EXCEPT !.axes[axis].enabled = TRUE]

disableAxis(m, axis) == [m EXCEPT !.axes[axis].enabled = FALSE]

resetSpindlePosition(m) ==
    [m EXCEPT !.spindle.position = 0, !.spindle.positionAvg = 0,
              !.spindle.lastCount = 0, !.pcntCount = 0]

\* MinimalMotionControl::update; dueX, dueZ: the step interval of the axis has elapsed
update(m, dueX, dueZ) ==
    IF m.emergencyStop THEN m
    ELSE LET tr == SpindleTracked(m.spindle, m.pcntCount)
             m1 == [m EXCEPT !.spindle = tr[1], !.pcntCount = tr[2]]
             m2 == [m1 EXCEPT !.axes[AXIS_X] = AxisTick(m1.axes, m1.spindle, AXIS_X, dueX)]
         IN  [m2 EXCEPT !.axes[AXIS_Z] = AxisTick(m2.axes, m2.spindle, AXIS_Z, dueZ)]

\* updateSpindleTracking with the hardware counter running on while it
\* executes: the counter holds count now, and late of its ticks arrived after
\* pcnt_get_counter_value (line 170) and before pcnt_counter_clear (line 179)
SpindleTrackedLate(sp, count, late) ==
    LET read == count - late
        delta == read - sp.lastCount
    IN  IF delta = 0
          THEN <<sp, count>>
          ELSE IF read >= PCNT_LIM \/ read <= -PCNT_LIM
                 THEN <<BacklashFilter([sp EXCEPT !.lastCount = 0], delta), 0>>
                 ELSE <<BacklashFilter([sp EXCEPT !.lastCount = read], delta), count>>

\* MinimalMotionControl::update around SpindleTrackedLate
updateLate(m, late, dueX, dueZ) ==
    IF m.emergencyStop THEN m
    ELSE LET tr == SpindleTrackedLate(m.spindle, m.pcntCount, late)
             m1 == [m EXCEPT !.spindle = tr[1], !.pcntCount = tr[2]]
             m2 == [m1 EXCEPT !.axes[AXIS_X] = AxisTick(m1.axes, m1.spindle, AXIS_X, dueX)]
         IN  [m2 EXCEPT !.axes[AXIS_Z] = AxisTick(m2.axes, m2.spindle, AXIS_Z, dueZ)]

(***************************************************************************)
(* OperationManager                                                        *)
(*                                                                         *)
(* Lengths that the code keeps in float mm (touchOffXCoord, ...) are held  *)
(* in deci-microns.  The measurement unit stays MEASURE_METRIC: the        *)
(* operator inputs modelled here do not include cycleMeasure().            *)
(***************************************************************************)
InitOp ==
    [currentMode |-> "NORMAL", currentState |-> "IDLE",
     passSubState |-> "MOVE_TO_START", setupIndex |-> 0,
     touchOffXCoord |-> 0, touchOffZCoord |-> 0,
     touchOffXValid |-> FALSE, touchOffZValid |-> FALSE,
     inNumpadInput |-> FALSE, numpad |-> <<>>,
     arrowKeyMode |-> "MOTION",
     isInternalOperation |-> FALSE, isLeftToRight |-> FALSE,
     touchOffX |-> 0, touchOffZ |-> 0,
     parkingPositionX |-> 0, parkingPositionZ |-> 0, parkingPositionSet |-> FALSE,
     targetDiameter |-> 0, targetZLength |-> 0,
     cutLength |-> 0, cutDepth |-> 0, numPasses |-> 3, coneRatio |-> 0,
     currentPass |-> 0, opDuprSign |-> 1, opDupr |-> 0,
     spindleSyncPos |-> 0, startOffset |-> 0]

Min(a, b) == IF a < b THEN a ELSE b
Max(a, b) == IF a > b THEN a ELSE b

\* mmToSteps for a length of num/den deci-microns: round(mm * MOTOR_STEPS / (SCREW_DU / 10000));
\* the ratio MOTOR_STEPS / SCREW_DU is reduced first, which keeps the products small
mmToSteps(num, den, axis) ==
    LET g == GCD(motorSteps(axis), screwPitch(axis))
    IN  Round(num * (motorSteps(axis) \div g), den * (screwPitch(axis) \div g))

\* variant of stepsToMm that uses the Z lead screw for both axes
stepsToMmZScrew(steps, axis) == <<steps * screwPitch(AXIS_Z), motorSteps(AXIS_Z)>>

\* stepsToMm in deci-microns, as the fraction <<numerator, denominator>>
stepsToMm(steps, axis) == <<steps * screwPitch(axis), motorSteps(axis)>>

\* OperationManager::posFromSpindle: float arithmetic (exact here) in which
\* the screw pitch enters in mm (SCREW_DU / 10000.0f) and dupr in
\* deci-microns; converted to long by truncation
posFromSpindle(sp, axis, spindlePos) ==
    LET g == GCD(motorSteps(axis) * 10000, screwPitch(axis) * ENCODER_STEPS_INT)
    IN  TruncDiv(spindlePos * ((motorSteps(axis) * 10000) \div g)
                     * sp.threadPitch * sp.threadStarts,
                 (screwPitch(axis) * ENCODER_STEPS_INT) \div g)

hasTouchOff(o) == o.touchOffXValid /\ o.touchOffZValid

\* numpadDigits[0 .. numpadIndex-1] is the sequence o.numpad
numpadPress(o, digit) ==
    LET s == IF o.inNumpadInput THEN o.numpad ELSE <<>>
    IN  [o EXCEPT !.inNumpadInput = TRUE,
                  !.numpad = IF digit >= 0 /\ digit <= 9
                               THEN IF Len(s) < 19 THEN Append(s, digit)
                                                   ELSE Append(Tail(s), digit)
                               ELSE s]

resetNumpad(o) == [o EXCEPT !.numpad = <<>>, !.inNumpadInput = FALSE]

RECURSIVE NumpadValue(_)
NumpadValue(s) ==
    IF s = <<>> THEN 0
    ELSE 10 * NumpadValue(SubSeq(s, 1, Len(s) - 1)) + s[Len(s)]

getNumpadResult(o) == NumpadValue(o.numpad)

\* MEASURE_METRIC branch
numpadToDeciMicrons(o) == getNumpadResult(o) * 10

\* getDefaultPitchForDiameter(diameter, MEASURE_METRIC); d is the diameter in du
getDefaultPitchForDiameter(d) ==
    CASE d >= 10000 /\ d < 14000 -> 250
      [] d >= 14000 /\ d < 20000 -> 300
      [] d >= 20000 /\ d < 25000 -> 400
      [] d >= 25000 /\ d < 30000 -> 450
      [] d >= 30000 /\ d < 40000 -> 500
      [] d >= 40000 /\ d < 50000 -> 700
      [] d >= 50000 /\ d < 60000 -> 800
      [] d >= 60000 /\ d < 80000 -> 1000
      [] d >= 80000 /\ d < 100000 -> 1250
      [] d >= 100000 /\ d < 120000 -> 1500
      [] d >= 120000 /\ d < 160000 -> 1750
      [] d >= 160000 /\ d < 200000 -> 2000
      [] d >= 200000 /\ d < 240000 -> 2500
      [] d >= 240000 /\ d < 300000 -> 3000
      [] d >= 300000 /\ d < 360000 -> 3500
      [] d >= 360000 /\ d < 420000 -> 4000
      [] d >= 420000 /\ d < 480000 -> 4500
      [] d >= 480000 /\ d < 560000 -> 5000
      [] d >= 560000 /\ d < 640000 -> 5500
      [] d >= 640000 /\ d < 720000 -> 6000
      [] d >= 720000 /\ d < 800000 -> 6500
      [] d >= 800000 /\ d < 900000 -> 7000
      [] d >= 900000 /\ d < 1000000 -> 7500
      [] d >= 1000000 -> 8000
      [] OTHER -> 250

clearTouchOff(o) ==
    [o EXCEPT !.touchOffX = 0, !.touchOffZ = 0,
              !.touchOffXCoord = 0, !.touchOffZCoord = 0,
              !.touchOffXValid = FALSE, !.touchOffZValid = FALSE]

clearTargets(o) == [o EXCEPT !.targetDiameter = 0, !.targetZLength = 0]

clearParkingPosition(o) ==
    [o EXCEPT !.parkingPositionX = 0, !.parkingPositionZ = 0,
              !.parkingPositionSet = FALSE]

\* variant of stopOperation that leaves the spindle sync as it is
stopOperationKeepSync(m) ==
    [m EXCEPT !.op.currentState = "IDLE",
              !.op.currentPass = 0,
              !.op.passSubState = "MOVE_TO_START",
              !.axes[AXIS_X].targetPosition = m.axes[AXIS_X].position,
              !.axes[AXIS_Z].targetPosition = m.axes[AXIS_Z].position,
              !.op.arrowKeyMode = "MOTION"]

stopOperation(m) ==
    [m EXCEPT !.op.currentState = "IDLE",
              !.op.currentPass = 0,
              !.op.passSubState = "MOVE_TO_START",
              !.axes[AXIS_X].targetPosition = m.axes[AXIS_X].position,
              !.axes[AXIS_Z].targetPosition = m.axes[AXIS_Z].position,
              !.spindle = stopThreading(@),
              !.op.arrowKeyMode = "MOTION"]

isPitchChangeAllowed(o) == ~(o.currentMode = "THREAD" /\ o.currentState = "RUNNING")

setMode(m, mode) ==
    LET m1 == IF m.op.currentState # "IDLE" THEN stopOperation(m) ELSE m
        o1 == [m1.op EXCEPT !.currentMode = mode, !.currentState = "IDLE",
                            !.setupIndex = 0, !.currentPass = 0, !.spindleSyncPos = 0]
        cleared == [resetNumpad(clearParkingPosition(clearTargets(clearTouchOff(o1))))
                      EXCEPT !.numPasses = 3, !.isInternalOperation = FALSE,
                             !.isLeftToRight = FALSE]
    IN  IF mode \in {"TURN", "FACE"}
          THEN [m1 EXCEPT !.op = cleared, !.spindle = setThreadPitch(@, 1000, 1)]
        ELSE IF mode = "THREAD"
          THEN [m1 EXCEPT !.op = cleared,
                          !.spindle = setThreadPitch(@, getDefaultPitchForDiameter(100000), 1)]
        ELSE [m1 EXCEPT !.op = o1]

startTouchOffX(m) ==
    [m EXCEPT !.op.touchOffX = m.axes[AXIS_X].position,
              !.op.currentState = "TOUCHOFF_X",
              !.op.numpad = <<>>, !.op.inNumpadInput = TRUE]

startTouchOffZ(m) ==
    [m EXCEPT !.op.touchOffZ = m.axes[AXIS_Z].position,
              !.op.currentState = "TOUCHOFF_Z",
              !.op.numpad = <<>>, !.op.inNumpadInput = TRUE]

updatePitchFromTouchOffDiameter(m) ==
    IF m.op.currentMode = "THREAD" /\ m.op.touchOffXValid /\ isPitchChangeAllowed(m.op)
      THEN [m EXCEPT !.spindle =
               setThreadPitch(@, getDefaultPitchForDiameter(m.op.touchOffXCoord), 1)]
      ELSE m

confirmTouchOffValue(m) ==
    LET o == m.op
        value == numpadToDeciMicrons(o)
    IN  IF ~o.inNumpadInput \/ Len(o.numpad) = 0 THEN m
        ELSE IF o.currentState = "TOUCHOFF_X"
          THEN updatePitchFromTouchOffDiameter(
                 [m EXCEPT !.op = [resetNumpad(o) EXCEPT !.touchOffXCoord = value,
                                                         !.touchOffXValid = TRUE,
                                                         !.currentState = "IDLE"]])
        ELSE IF o.currentState = "TOUCHOFF_Z"
          THEN [m EXCEPT !.op = [resetNumpad(o) EXCEPT !.touchOffZCoord = value,
                                                       !.touchOffZValid = TRUE,
                                                       !.currentState = "IDLE"]]
        ELSE m

\* STATE_SETUP_STARTS is not among the states startParameterEntry accepts
startParameterEntry(o, parameterState) ==
    IF parameterState \in {"TARGET_DIAMETER", "TARGET_LENGTH", "SETUP_PASSES", "SETUP_CONE"}
      THEN [resetNumpad(o) EXCEPT !.currentState = parameterState,
                                  !.arrowKeyMode = "NAVIGATION",
                                  !.inNumpadInput = TRUE]
      ELSE o

nextSetupStep(o) ==
    IF o.inNumpadInput /\ o.currentState \in
           {"TARGET_LENGTH", "SETUP_PASSES", "SETUP_STARTS", "SETUP_CONE"}
      THEN o
    ELSE IF o.currentMode = "NORMAL" THEN [o EXCEPT !.currentState = "READY"]
    ELSE IF o.currentMode \in {"TURN", "FACE", "CUT"} THEN
        CASE o.currentState = "IDLE" ->
               IF ~hasTouchOff(o) THEN o ELSE startParameterEntry(o, "TARGET_LENGTH")
          [] o.currentState = "TARGET_LENGTH" -> startParameterEntry(o, "SETUP_PASSES")
          [] o.currentState = "SETUP_PASSES" -> [o EXCEPT !.currentState = "READY"]
          [] OTHER -> o
    ELSE IF o.currentMode = "THREAD" THEN
        CASE o.currentState = "IDLE" ->
               IF ~hasTouchOff(o) THEN o ELSE startParameterEntry(o, "TARGET_LENGTH")
          [] o.currentState = "TARGET_LENGTH" -> startParameterEntry(o, "SETUP_STARTS")
          [] o.currentState = "SETUP_STARTS" -> startParameterEntry(o, "SETUP_PASSES")
          [] o.currentState = "SETUP_PASSES" -> startParameterEntry(o, "SETUP_CONE")
          [] o.currentState = "SETUP_CONE" -> [o EXCEPT !.currentState = "READY"]
          [] OTHER -> o
    ELSE IF o.currentMode = "CONE" THEN
        CASE o.currentState = "IDLE" ->
               IF ~hasTouchOff(o) THEN o ELSE startParameterEntry(o, "SETUP_CONE")
          [] o.currentState = "SETUP_CONE" -> [o EXCEPT !.currentState = "READY"]
          [] OTHER -> o
    ELSE o

setNumPasses(o, passes) == [o EXCEPT !.numPasses = Max(1, Min(passes, 999))]

\* setCutLength / setCutDepth with the length given in deci-microns
setCutLength(o, du) == [o EXCEPT !.cutLength = mmToSteps(du, 1, AXIS_Z)]

setCutDepth(o, du) == [o EXCEPT !.cutDepth = mmToSteps(du, 1, AXIS_X)]

confirmParameterValue(m) ==
    LET o == m.op
        entered ==
            CASE o.currentState = "TARGET_LENGTH" ->
                   [m EXCEPT !.op = IF o.currentMode = "FACE"
                                      THEN setCutDepth(o, numpadToDeciMicrons(o))
                                      ELSE setCutLength(o, numpadToDeciMicrons(o))]
              [] o.currentState = "SETUP_PASSES" ->
                   [m EXCEPT !.op = setNumPasses(o, getNumpadResult(o))]
              [] o.currentState = "SETUP_STARTS" ->
                   [m EXCEPT !.spindle.threadStarts =
                                 Max(1, Min(getNumpadResult(o), 99))]
              [] o.currentState = "SETUP_CONE" ->
                   [m EXCEPT !.op.coneRatio = getNumpadResult(o)]
              [] OTHER -> m
    IN  IF ~o.inNumpadInput \/ Len(o.numpad) = 0 THEN m
        ELSE [entered EXCEPT !.op = nextSetupStep(resetNumpad(@))]

startTargetDiameterEntry(o) ==
    [resetNumpad(o) EXCEPT !.currentState = "TARGET_DIAMETER",
                           !.arrowKeyMode = "NAVIGATION", !.inNumpadInput = TRUE]

startTargetLengthEntry(o) ==
    [resetNumpad(o) EXCEPT !.currentState = "TARGET_LENGTH",
                           !.arrowKeyMode = "NAVIGATION", !.inNumpadInput = TRUE]

\* cutDepth is the radial depth |touch-off diameter - target diameter| / 2 in X steps,
\* cutLength the target length in Z steps, negative for right-to-left
calculateOperationParameters(o) ==
    IF ~o.touchOffXValid \/ ~o.touchOffZValid \/ o.targetDiameter = 0 \/ o.targetZLength = 0
      THEN o
      ELSE LET diameterChange == IF o.isInternalOperation
                                   THEN o.targetDiameter - o.touchOffXCoord
                                   ELSE o.touchOffXCoord - o.targetDiameter
               len == mmToSteps(o.targetZLength, 1, AXIS_Z)
           IN  [o EXCEPT !.cutDepth = mmToSteps(Abs(diameterChange), 2, AXIS_X),
                         !.cutLength = IF ~o.isLeftToRight THEN -len ELSE len]

confirmTargetValue(o) ==
    LET deciMicrons == numpadToDeciMicrons(o)
    IN  IF ~o.inNumpadInput \/ Len(o.numpad) = 0 THEN o
        ELSE IF o.currentState = "TARGET_DIAMETER"
          THEN LET o1 == [resetNumpad(o) EXCEPT !.targetDiameter = deciMicrons,
                                                !.currentState = "IDLE"]
               IN  IF o1.currentMode = "TURN" /\ o1.setupIndex = 3 /\ ~(o1.targetZLength > 0)
                     THEN startTargetLengthEntry(o1)
                     ELSE o1
        ELSE IF o.currentState = "TARGET_LENGTH"
          THEN LET o1 == [resetNumpad(o) EXCEPT !.targetZLength = deciMicrons,
                                                !.currentState = "IDLE"]
               IN  IF o1.currentMode = "TURN" /\ o1.setupIndex = 3
                     THEN calculateOperationParameters(o1)
                     ELSE o1
        ELSE o

clearCurrentInput(o) ==
    LET o1 == resetNumpad(o)
    IN  IF o1.currentState \in {"TARGET_DIAMETER", "TARGET_LENGTH", "TOUCHOFF_X",
                                "TOUCHOFF_Z", "PARKING_SETUP"}
          THEN [o1 EXCEPT !.currentState = "IDLE",
                          !.arrowKeyMode = IF o1.currentMode = "TURN" /\ o1.setupIndex = 0
                                             THEN @ ELSE "MOTION"]
          ELSE o1

\* variant of the guard that accepts any workflow state
startAllowedAnyState(o) == hasTouchOff(o)

\* the guard of startOperation (line 714)
startAllowed(o) == hasTouchOff(o) /\ o.currentState = "READY"

\* variant of the direction sign that ignores the direction of the cut
duprSignForward(o) == 1

\* opDuprSign = isLeftToRight ? 1 : -1 (lines 739 and 747)
duprSign(o) == IF o.isLeftToRight THEN 1 ELSE -1

\* startOperation: <<machine, return value>>
startOperation(m) ==
    LET o == m.op
        oc == calculateOperationParameters(o)
        absPitch == Abs(m.spindle.threadPitch)
        sign == IF oc.currentMode \in {"TURN", "FACE", "CUT", "THREAD"}
                  THEN duprSign(oc)
                  ELSE 1
        sp1 == IF oc.currentMode \in {"TURN", "FACE", "CUT", "THREAD"}
                 THEN setThreadPitch(m.spindle, absPitch * sign, 1)
                 ELSE m.spindle
        sp2 == IF oc.currentMode \in {"TURN", "FACE", "THREAD", "CUT", "CONE"}
                 THEN startThreading(sp1)
                 ELSE sp1
        starts == sp2.threadStarts
    IN  IF ~startAllowed(o)
          THEN <<m, FALSE>>
        ELSE IF oc.currentMode # "NORMAL" /\ oc.currentMode # "CONE"
                /\ (oc.cutLength = 0 \/ oc.cutDepth = 0)
          THEN <<[m EXCEPT !.op = oc], FALSE>>
        ELSE <<[m EXCEPT !.spindle = sp2,
                         !.op = [oc EXCEPT !.currentState = "RUNNING",
                                           !.passSubState = "MOVE_TO_START",
                                           !.currentPass = 0,
                                           !.opDuprSign = sign,
                                           !.opDupr = absPitch,
                                           !.startOffset =
                                               IF starts = 1 THEN 0
                                               ELSE Round(ENCODER_STEPS_INT, starts),
                                           !.spindleSyncPos = m.spindle.position]],
                 TRUE>>

advancePass(o) ==
    IF o.currentState = "RUNNING" /\ o.currentPass < o.numPasses - 1
      THEN [o EXCEPT !.currentPass = @ + 1, !.passSubState = "MOVE_TO_START"]
      ELSE o

\* the pass helpers return <<machine, completed>>
moveToStartPosition(m) ==
    LET o == m.op
        fromParking == o.currentMode = "FACE" /\ o.parkingPositionSet
        startX == IF fromParking THEN o.parkingPositionX ELSE o.touchOffX
        startZ == IF fromParking THEN o.parkingPositionZ ELSE o.touchOffZ
        m1 == setTargetPosition(setTargetPosition(m, AXIS_X, startX), AXIS_Z, startZ)
    IN  <<m1, Abs(m1.axes[AXIS_X].position - startX) < 5
              /\ Abs(m1.axes[AXIS_Z].position - startZ) < 5>>

performCuttingPass(m) ==
    LET o == m.op
        currentDepth == TruncDiv(o.cutDepth * (o.currentPass + 1), o.numPasses)
        spindlePos == m.spindle.position
        fromSpindle(axis, pos) == positionFromSpindleOf(m.axes, m.spindle, axis, pos)
    IN  CASE o.currentMode \in {"TURN", "THREAD"} ->
               LET depthMm == stepsToMm(currentDepth, AXIS_X)
                   \* (targetDiameter - touchOffXCoord) / 2 = -depthMm
                   targetX == o.touchOffX + mmToSteps(-2 * depthMm[1], 2 * depthMm[2], AXIS_X)
                   targetZFromSpindle == fromSpindle(AXIS_Z, spindlePos)
                   m1 == setTargetPosition(setTargetPosition(m, AXIS_X, targetX),
                                           AXIS_Z, targetZFromSpindle)
                   actualZMovement == m1.axes[AXIS_Z].position - o.touchOffZ
               IN  <<m1, Abs(actualZMovement) >= Abs(o.cutLength)>>
          [] o.currentMode = "FACE" ->
               LET depthMm == stepsToMm(currentDepth, AXIS_Z)
                   targetZ == o.touchOffZ + mmToSteps(-depthMm[1], depthMm[2], AXIS_Z)
                   lengthMm == stepsToMm(o.cutLength, AXIS_X)
                   targetX == o.touchOffX + mmToSteps(-2 * lengthMm[1], 2 * lengthMm[2], AXIS_X)
                   m1 == setTargetPosition(setTargetPosition(m, AXIS_Z, targetZ),
                                           AXIS_X, targetX)
               IN  <<m1, Abs(m1.axes[AXIS_X].position - targetX) < 5>>
          [] o.currentMode = "CUT" ->
               LET deltaX == fromSpindle(AXIS_X, spindlePos)
                               - fromSpindle(AXIS_X, o.spindleSyncPos)
                   deltaXMm == stepsToMm(deltaX, AXIS_X)
                   followX == o.touchOffX + mmToSteps(-2 * deltaXMm[1], 2 * deltaXMm[2], AXIS_X)
                   depthMm == stepsToMm(o.cutDepth, AXIS_X)
                   finalX == o.touchOffX + mmToSteps(-2 * depthMm[1], 2 * depthMm[2], AXIS_X)
                   targetX == IF (o.cutDepth > 0 /\ followX > finalX)
                                 \/ (o.cutDepth < 0 /\ followX < finalX)
                                THEN finalX ELSE followX
               IN  <<setTargetPosition(m, AXIS_X, targetX), targetX = finalX>>
          [] o.currentMode = "CONE" ->
               LET deltaZ == fromSpindle(AXIS_Z, spindlePos)
                               - fromSpindle(AXIS_Z, o.spindleSyncPos)
                   targetZ == o.touchOffZ + deltaZ
                   zMovementMm == stepsToMm(deltaZ, AXIS_Z)
                   \* diameterChange / 2 = zMovementMm * coneRatio, coneRatio in 1/10000
                   targetX == o.touchOffX
                                + mmToSteps(zMovementMm[1] * o.coneRatio,
                                            zMovementMm[2] * 10000, AXIS_X)
               IN  <<setTargetPosition(setTargetPosition(m, AXIS_Z, targetZ),
                                       AXIS_X, targetX), FALSE>>
          [] OTHER -> <<m, FALSE>>

retractTool(m) ==
    LET safeX == IF m.op.parkingPositionSet THEN m.op.parkingPositionX ELSE m.op.touchOffX
        m1 == setTargetPosition(m, AXIS_X, safeX)
    IN  <<m1, Abs(m1.axes[AXIS_X].position - safeX) < 5>>

returnToStart(m) ==
    LET m1 == setTargetPosition(m, AXIS_Z, m.op.touchOffZ)
    IN  <<m1, Abs(m1.axes[AXIS_Z].position - m.op.touchOffZ) < 5>>

\* variant that ends the operation after whichever pass has just returned
passCompletedFirstPass(m) == stopOperation(m)

\* SUBSTATE_RETURNING has completed: next pass, or the operation is complete
passCompleted(m) ==
    IF m.op.currentPass < m.op.numPasses - 1
      THEN [m EXCEPT !.op.currentPass = @ + 1, !.op.passSubState = "MOVE_TO_START"]
      ELSE stopOperation(m)

executeNormalMode(m) ==
    setTargetPosition(m, AXIS_Z,
        positionFromSpindleOf(m.axes, m.spindle, AXIS_Z, m.spindle.position))

executeTurnMode(m) ==
    CASE m.op.passSubState = "MOVE_TO_START" ->
           LET r == moveToStartPosition(m)
           IN  IF r[2] THEN [r[1] EXCEPT !.op.passSubState = "SYNC_SPINDLE"] ELSE r[1]
      [] m.op.passSubState = "SYNC_SPINDLE" ->
           [m EXCEPT !.op.spindleSyncPos = m.spindle.position,
                     !.op.passSubState = "CUTTING"]
      [] m.op.passSubState = "CUTTING" ->
           LET r == performCuttingPass(m)
           IN  IF r[2] THEN [r[1] EXCEPT !.op.passSubState = "RETRACTING"] ELSE r[1]
      [] m.op.passSubState = "RETRACTING" ->
           LET r == retractTool(m)
           IN  IF r[2] THEN [r[1] EXCEPT !.op.passSubState = "RETURNING"] ELSE r[1]
      [] m.op.passSubState = "RETURNING" ->
           LET r == returnToStart(m)
           IN  IF r[2] THEN passCompleted(r[1]) ELSE r[1]

executeCutMode(m) ==
    CASE m.op.passSubState = "MOVE_TO_START" ->
           LET r == moveToStartPosition(m)
           IN  IF r[2] THEN [r[1] EXCEPT !.op.passSubState = "SYNC_SPINDLE"] ELSE r[1]
      [] m.op.passSubState = "SYNC_SPINDLE" ->
           [m EXCEPT !.op.spindleSyncPos = m.spindle.position,
                     !.op.passSubState = "CUTTING"]
      [] m.op.passSubState = "CUTTING" ->
           LET r == performCuttingPass(m)
           IN  IF r[2] THEN [r[1] EXCEPT !.op.passSubState = "RETURNING"] ELSE r[1]
      [] m.op.passSubState = "RETURNING" ->
           LET m1 == setTargetPosition(m, AXIS_X, m.op.touchOffX)
           IN  IF Abs(m1.axes[AXIS_X].position - m.op.touchOffX) < 5
                 THEN passCompleted(m1) ELSE m1
      [] OTHER -> m

\* OperationManager::update
opUpdate(m) ==
    IF m.op.currentState # "RUNNING" THEN m
    ELSE CASE m.op.currentMode = "NORMAL" -> executeNormalMode(m)
           [] m.op.currentMode \in {"TURN", "FACE", "THREAD"} -> executeTurnMode(m)
           [] m.op.currentMode = "CONE" -> performCuttingPass(m)[1]
           [] m.op.currentMode = "CUT" -> executeCutMode(m)
           [] OTHER -> m

getLastSetupIndex(o) ==
    CASE o.currentMode \in {"CONE", "GCODE"} -> 2
      [] o.currentMode \in {"THREAD", "TURN", "FACE", "CUT", "ELLIPSE"} -> 5
      [] OTHER -> 0

isPassMode(o) == o.currentMode \in {"TURN", "FACE", "CUT", "THREAD", "ELLIPSE"}

advanceSetupIndex(o) ==
    IF o.setupIndex < getLastSetupIndex(o)
      THEN LET o1 == [o EXCEPT !.setupIndex = @ + 1]
           IN  IF isPassMode(o1) /\ o1.setupIndex = getLastSetupIndex(o1)
                 THEN [o1 EXCEPT !.currentState = "READY"]
                 ELSE o1
      ELSE o


(***************************************************************************)
(* Inputs of the model                                                     *)
(***************************************************************************)
\* digits the operator types into the entry that is open: the X touch-off
\* diameter is 0.003 mm, the target diameter 0.001 mm or 0.003 mm (no cut),
\* every other entry 0.001 mm
DigitsFor(state) ==
    CASE state = "TOUCHOFF_X" -> {3}
      [] state = "TARGET_DIAMETER" -> {1, 3}
      [] OTHER -> {1}
\* modes the operator selects
Modes == {"TURN"}
\* encoder movement between two reads of the counter, while a job is set up and run
EncoderDeltas == {25}
\* soft limits <<leftLimit, rightLimit>> the operator configures
SoftLimits == {<<1, -1>>}
\* encoder movements driven into the spindle tracker alone
SpinBlock == PCNT_LIM \div 2
SpinDeltas == {-SpinBlock, -4, -1, 1, 4, SpinBlock}

(***************************************************************************)
(* Actions: one per call of a public method, or per hardware event.        *)
(* lastCall names the calls whose outcome is observed, "other" the rest.   *)
(***************************************************************************)
Init ==
    /\ emergencyStop = FALSE
    /\ axes = [i \in AxisIds |-> InitAxis]
    /\ spindle = InitSpindle
    /\ pcntCount = 0
    /\ op = InitOp
    /\ lastCall = "init"
    /\ speed = [i \in AxisIds |->
                  [currentSpeed |-> SPEED_START, maxSpeed |-> SPEED_MANUAL_MOVE,
                   startSpeed |-> SPEED_START, acceleration |-> ACCELERATION]]
    /\ ring = [buffer |-> [i \in 0 .. BufferSize - 1 |-> 0],
               head |-> 0, tail |-> 0, count |-> 0, peakCount |-> 0,
               popping |-> FALSE, loaded |-> 0, pushed |-> 0, popped |-> <<>>]
    /\ queued = [emergencyStop |-> FALSE, commandQueue |-> <<>>,
                 enabled |-> [i \in AxisIds |-> TRUE],
                 running |-> [i \in AxisIds |-> FALSE]]

\* the spindle position the tracker reaches at its next read of the counter
pendingSpindlePosition(count) == spindle.position + (count - spindle.lastCount)

\* the spindle turns: the hardware counter moves
EncoderTurn ==
    \E d \in EncoderDeltas :
        /\ Abs(pendingSpindlePosition(pcntCount + d)) <= MaxSpindle
        /\ Abs(pcntCount + d) <= PCNT_LIM
        /\ pcntCount' = pcntCount + d
        /\ lastCall' = "other"
        /\ UNCHANGED <<emergencyStop, axes, spindle, op, speed, ring, queued>>

MotionUpdate ==
    \E dueX, dueZ \in BOOLEAN : Commit(update(Cur, dueX, dueZ), "other")

SetTargetPosition ==
    \E axis \in AxisIds, steps \in -MaxTarget .. MaxTarget :
        Commit(setTargetPosition(Cur, axis, steps), "setTargetPosition")

MoveRelative ==
    \E axis \in AxisIds, steps \in {-1, 1} :
        /\ Abs(axes[axis].targetPosition + steps) <= MaxTarget
        /\ Commit(moveRelative(Cur, axis, steps), "other")

SetEmergencyStopOn == Commit(setEmergencyStop(Cur, TRUE), "setEmergencyStop(true)")

\* the tag tells the release that directly follows the call that raised the stop
SetEmergencyStopOff ==
    Commit(setEmergencyStop(Cur, FALSE),
           IF lastCall = "setEmergencyStop(true)"
             THEN "setEmergencyStop(true);setEmergencyStop(false)"
             ELSE "other")

SetSoftLimits ==
    \E axis \in AxisIds, lim \in SoftLimits :
        Commit(setSoftLimits(Cur, axis, lim[1], lim[2]), "other")

EnableAxis == \E axis \in AxisIds : Commit(enableAxis(Cur, axis), "other")

DisableAxis == \E axis \in AxisIds : Commit(disableAxis(Cur, axis), "other")

ResetSpindlePosition == Commit(resetSpindlePosition(Cur), "other")

\* the operator selects the mode of the job, once after power-up
SelectMode ==
    /\ op.currentMode = "NORMAL"
    /\ \E mode \in Modes : Commit(setMode(Cur, mode), "other")

AdvanceSetupIndex == Commit([Cur EXCEPT !.op = advanceSetupIndex(@)], "other")

\* the operator opens an entry (touch-off, target) only while no operation runs
StartTouchOffX ==
    /\ op.currentState # "RUNNING"
    /\ Commit(startTouchOffX(Cur), "other")

StartTouchOffZ ==
    /\ op.currentState # "RUNNING"
    /\ Commit(startTouchOffZ(Cur), "other")

NumpadPress ==
    \E digit \in DigitsFor(op.currentState) :
        /\ op.inNumpadInput => Len(op.numpad) < MaxDigits
        /\ Commit([Cur EXCEPT !.op = numpadPress(@, digit)], "other")

ConfirmTouchOffValue == Commit(confirmTouchOffValue(Cur), "other")

StartTargetDiameterEntry ==
    /\ op.currentState # "RUNNING"
    /\ Commit([Cur EXCEPT !.op = startTargetDiameterEntry(@)], "other")

ConfirmTargetValue == Commit([Cur EXCEPT !.op = confirmTargetValue(@)], "other")

StartOperation ==
    LET r == startOperation(Cur)
    IN  Commit(r[1], IF r[2] THEN "startOperation:true" ELSE "startOperation:false")

\* the tag tells a stop that interrupts a running operation
StopOperation ==
    Commit(stopOperation(Cur),
           IF op.currentState = "RUNNING" THEN "stopOperation:running" ELSE "other")

AdvancePass == Commit([Cur EXCEPT !.op = advancePass(@)], "other")

\* the tag tells the two ways SUBSTATE_RETURNING completes
OpUpdate ==
    LET m == opUpdate(Cur)
    IN  Commit(m, IF op.currentState = "RUNNING" /\ m.op.currentState = "IDLE"
                    THEN "opUpdate:completed"
                  ELSE IF m.op.currentPass # op.currentPass
                    THEN "opUpdate:nextPass"
                  ELSE "other")

(***************************************************************************)
(* Spec: one turning job, from power-up through setup to the passes, with  *)
(* the spindle turning, both tick functions and the emergency stop.        *)
(***************************************************************************)
Next ==
    \/ EncoderTurn
    \/ MotionUpdate
    \/ SetEmergencyStopOn
    \/ SetEmergencyStopOff
    \/ EnableAxis
    \/ SelectMode
    \/ AdvanceSetupIndex
    \/ StartTouchOffX
    \/ StartTouchOffZ
    \/ NumpadPress
    \/ ConfirmTouchOffValue
    \/ StartTargetDiameterEntry
    \/ ConfirmTargetValue
    \/ StartOperation
    \/ StopOperation
    \/ AdvancePass
    \/ OpUpdate

Spec == Init /\ [][Next]_vars

(***************************************************************************)
(* SpecMotion: the axis controller driven directly (jog, absolute targets, *)
(* soft limits, emergency stop, stop request), no operation running.       *)
(***************************************************************************)
NextMotion ==
    \/ SetTargetPosition
    \/ MoveRelative
    \/ SetSoftLimits
    \/ EnableAxis
    \/ DisableAxis
    \/ MotionUpdate
    \/ SetEmergencyStopOn
    \/ SetEmergencyStopOff
    \/ StopOperation

SpecMotion == Init /\ [][NextMotion]_vars

(***************************************************************************)
(* SpecSpindle: the spindle tracker alone, with encoder movements of both  *)
(* signs, small and large enough to run the counter into its limits.       *)
(***************************************************************************)
InWindow(p) ==
    \E k \in -MaxBlocks .. MaxBlocks : Abs(p - k * SpinBlock) <= MaxSpindleWin

SpindleTurn ==
    \E d \in SpinDeltas :
        /\ InWindow(pendingSpindlePosition(pcntCount + d))
        /\ Abs(pcntCount + d) <= PCNT_LIM
        /\ pcntCount' = pcntCount + d
        /\ lastCall' = "other"
        /\ UNCHANGED <<emergencyStop, axes, spindle, op, speed, ring, queued>>

NextSpindle ==
    \/ SpindleTurn
    \/ MotionUpdate
    \/ ResetSpindlePosition

SpecSpindle == Init /\ [][NextSpindle]_vars

(***************************************************************************)
(* SpecThread: one threading job, from power-up through setup to the       *)
(* passes, with one or two thread starts selected before the start.        *)
(***************************************************************************)
SelectThreadMode ==
    /\ op.currentMode = "NORMAL"
    /\ Commit(setMode(Cur, "THREAD"), "other")

StartTargetLengthEntry ==
    /\ op.currentState # "RUNNING"
    /\ Commit([Cur EXCEPT !.op = startTargetLengthEntry(@)], "other")

ThreadStarts == {2}

\* the number of starts is chosen once the setup is complete
SetStarts ==
    \E starts \in ThreadStarts :
        /\ op.currentState = "READY"
        /\ Commit([Cur EXCEPT !.spindle = setStarts(@, starts)], "other")

ThreadEncoderDeltas == {MaxThreadSpindle}

ThreadEncoderTurn ==
    \E d \in ThreadEncoderDeltas :
        /\ Abs(pendingSpindlePosition(pcntCount + d)) <= MaxThreadSpindle
        /\ Abs(pcntCount + d) <= PCNT_LIM
        /\ pcntCount' = pcntCount + d
        /\ lastCall' = "other"
        /\ UNCHANGED <<emergencyStop, axes, spindle, op, speed, ring, queued>>

NextThread ==
    \/ ThreadEncoderTurn
    \/ MotionUpdate
    \/ EnableAxis
    \/ SelectThreadMode
    \/ AdvanceSetupIndex
    \/ StartTouchOffX
    \/ StartTouchOffZ
    \/ NumpadPress
    \/ ConfirmTouchOffValue
    \/ StartTargetDiameterEntry
    \/ StartTargetLengthEntry
    \/ ConfirmTargetValue
    \/ SetStarts
    \/ StartOperation
    \/ OpUpdate

SpecThread == Init /\ [][NextThread]_vars

(***************************************************************************)
(* SpecSetup: the setup workflow of every mode with the machine at rest:   *)
(* mode selection, touch-off and target entry, the setup steps, the        *)
(* direction of the cut, and the start and stop of the operation.          *)
(***************************************************************************)
SetupModes == {"TURN", "FACE", "CUT", "THREAD", "CONE"}

\* the operator selects the mode of the job, once after power-up
SetMode ==
    /\ op.currentMode = "NORMAL"
    /\ \E mode \in SetupModes : Commit(setMode(Cur, mode), "other")

NextSetupStep == Commit([Cur EXCEPT !.op = nextSetupStep(@)], "nextSetupStep")

ConfirmParameterValue == Commit(confirmParameterValue(Cur), "other")

ToggleDirection == Commit([Cur EXCEPT !.op.isLeftToRight = ~@], "other")

ClearCurrentInput == Commit([Cur EXCEPT !.op = clearCurrentInput(@)], "other")

NextSetup ==
    \/ SetMode
    \/ StartTouchOffX
    \/ StartTouchOffZ
    \/ NumpadPress
    \/ ConfirmTouchOffValue
    \/ StartTargetDiameterEntry
    \/ StartTargetLengthEntry
    \/ ConfirmTargetValue
    \/ NextSetupStep
    \/ ConfirmParameterValue
    \/ ClearCurrentInput
    \/ AdvanceSetupIndex
    \/ ToggleDirection
    \/ StartOperation
    \/ StopOperation

SpecSetup == Init /\ [][NextSetup]_vars

(***************************************************************************)
(* SpecMapping: the spindle-to-axis mapping under the pitches, starts and  *)
(* soft limits a caller can set, with the axes following the spindle.      *)
(***************************************************************************)
MappingPitches == {-1000, 1000, SCREW_X_DU, SCREW_Z_DU}

MappingStarts == {1, 2}

MappingDeltas == {-12, 12}

\* spindle tick counts the mapping is evaluated at: fractions of a
\* revolution, one revolution, and the ends of the range
MappingTicks == {-100000, -ENCODER_STEPS_INT, -24, -12, 12, 24, ENCODER_STEPS_INT, 100000}

SetThreadPitch ==
    \E dupr \in MappingPitches, starts \in MappingStarts :
        Commit([Cur EXCEPT !.spindle = setThreadPitch(@, dupr, starts)], "other")

StartThreading == Commit([Cur EXCEPT !.spindle = startThreading(@)], "other")

MappingTurn ==
    \E d \in MappingDeltas :
        /\ Abs(pendingSpindlePosition(pcntCount + d)) <= MaxMappingSpindle
        /\ pcntCount' = pcntCount + d
        /\ lastCall' = "other"
        /\ UNCHANGED <<emergencyStop, axes, spindle, op, speed, ring, queued>>

\* update() called before the step interval of either axis has elapsed
FollowUpdate == Commit(update(Cur, FALSE, FALSE), "other")

NextMapping ==
    \/ SetThreadPitch
    \/ StartThreading
    \/ SetSoftLimits
    \/ EnableAxis
    \/ MappingTurn
    \/ FollowUpdate

SpecMapping == Init /\ [][NextMapping]_vars

(***************************************************************************)
(* SpecNormal: the gearbox of MODE_NORMAL: the mode the controller powers  *)
(* up in, with a pitch set once, the touch-offs, the setup step, the start  *)
(* of the operation and the spindle turning while the operation runs.      *)
(***************************************************************************)
NextNormal ==
    \/ (op.currentState = "IDLE" /\ spindle.threadPitch = 0 /\ SetThreadPitch)
    \/ (op.currentState = "RUNNING" /\ MappingTurn)
    \/ (op.currentState = "RUNNING" /\ FollowUpdate)
    \/ (op.currentState = "IDLE" /\ StartTouchOffX)
    \/ (op.currentState = "IDLE" /\ StartTouchOffZ)
    \/ NumpadPress
    \/ ConfirmTouchOffValue
    \/ NextSetupStep
    \/ StartOperation
    \/ OpUpdate

SpecNormal == Init /\ [][NextNormal]_vars

(***************************************************************************)
(* SpecJob: one single-pass external turning job, right-to-left: touch-off *)
(* diameter 20.000 mm at Z 0.000 mm, target diameter 18.000 mm, target     *)
(* length 30.000 mm.  The operator's key sequence of the setup is one      *)
(* step; the spindle then turns forward in blocks of a full counter range. *)
(***************************************************************************)
TouchOffDiameterKeys == <<2, 0, 0, 0, 0>>
TouchOffZKeys == <<0>>
TargetDiameterKeys == <<1, 8, 0, 0, 0>>
TargetLengthKeys == <<3, 0, 0, 0, 0>>

RECURSIVE TypeKeys(_, _)
TypeKeys(o, keys) ==
    IF keys = <<>> THEN o ELSE TypeKeys(numpadPress(o, Head(keys)), Tail(keys))

Typed(m, keys) == [m EXCEPT !.op = TypeKeys(@, keys)]

RECURSIVE AdvancedSetupIndex(_, _)
AdvancedSetupIndex(o, n) ==
    IF n = 0 THEN o ELSE AdvancedSetupIndex(advanceSetupIndex(o), n - 1)

\* setMode(MODE_TURN), both touch-offs, setup index 3, target diameter and
\* length (confirmTargetValue opens the length entry itself), one pass,
\* setup index 5
JobSetup(m) ==
    LET m1 == confirmTouchOffValue(Typed(startTouchOffX(setMode(m, "TURN")),
                                         TouchOffDiameterKeys))
        m2 == confirmTouchOffValue(Typed(startTouchOffZ(m1), TouchOffZKeys))
        o3 == startTargetDiameterEntry(AdvancedSetupIndex(m2.op, 3))
        o4 == confirmTargetValue(TypeKeys(o3, TargetDiameterKeys))
        o5 == confirmTargetValue(TypeKeys(o4, TargetLengthKeys))
    IN  [m2 EXCEPT !.op = AdvancedSetupIndex(setNumPasses(o5, 1), 2)]

EnterJob ==
    /\ lastCall = "init"
    /\ Commit(JobSetup(Cur), "jobSetup")

\* the axes are enabled before the operation is started
JobEnableAxis ==
    /\ lastCall = "jobSetup"
    /\ \E axis \in AxisIds : Commit(enableAxis(Cur, axis), lastCall)

\* no enabled axis has a step to take at the next update()
CaughtUp == update(Cur, TRUE, TRUE).axes = update(Cur, FALSE, FALSE).axes

\* the spindle turns while the pass cuts, slowly enough for the axes to keep
\* up with it
JobEncoderTurn ==
    /\ op.currentState = "RUNNING"
    /\ op.passSubState = "CUTTING"
    /\ CaughtUp
    /\ pendingSpindlePosition(pcntCount + PCNT_LIM) <= MaxJobSpindle
    /\ pcntCount + PCNT_LIM <= PCNT_LIM
    /\ pcntCount' = pcntCount + PCNT_LIM
    /\ UNCHANGED <<emergencyStop, axes, spindle, op, lastCall, speed, ring, queued>>

\* update() called when the step interval of both axes has elapsed
StepUpdate == Commit(update(Cur, TRUE, TRUE), lastCall)

JobOpUpdate == Commit(opUpdate(Cur), lastCall)

JobStart ==
    /\ lastCall = "jobSetup"
    /\ LET r == startOperation(Cur)
       IN  Commit(r[1], IF r[2] THEN "startOperation:true" ELSE "startOperation:false")

NextJob ==
    \/ EnterJob
    \/ JobEnableAxis
    \/ JobStart
    \/ JobEncoderTurn
    \/ StepUpdate
    \/ JobOpUpdate

SpecJob == Init /\ [][NextJob]_vars

(***************************************************************************)
(* SpecShortJob: the same turning job with a cut of 0.007 mm (6 Z steps),  *)
(* both axes enabled, under fair scheduling: both tick functions keep      *)
(* being called and the spindle turns forward while it can.                *)
(***************************************************************************)
ShortJobSetup(m) ==
    LET m1 == confirmTouchOffValue(Typed(startTouchOffX(setMode(m, "TURN")),
                                         TouchOffDiameterKeys))
        m2 == confirmTouchOffValue(Typed(startTouchOffZ(m1), TouchOffZKeys))
        o3 == startTargetDiameterEntry(AdvancedSetupIndex(m2.op, 3))
        o4 == confirmTargetValue(TypeKeys(o3, TargetDiameterKeys))
        o5 == confirmTargetValue(TypeKeys(o4, <<7>>))
        m6 == [m2 EXCEPT !.op = AdvancedSetupIndex(setNumPasses(o5, 1), 2)]
    IN  enableAxis(enableAxis(m6, AXIS_X), AXIS_Z)

EnterShortJob ==
    /\ lastCall = "init"
    /\ Commit(ShortJobSetup(Cur), "jobSetup")

NextShortJob ==
    \/ EnterShortJob
    \/ JobStart
    \/ ThreadEncoderTurn
    \/ StepUpdate
    \/ JobOpUpdate

\* the first conjunct of the fairness is WF_vars(StepUpdate) written out:
\* StepUpdate is enabled exactly when update() changes the controller
SpecShortJob ==
    /\ Init /\ [][NextShortJob]_vars
    /\ ([]<>(update(Cur, TRUE, TRUE) = Cur) \/ []<><<StepUpdate>>_vars)
    /\ WF_vars(JobOpUpdate) /\ WF_vars(ThreadEncoderTurn)

(***************************************************************************)
(* SpecPasses: the short turning job with the pass count set and the pass  *)
(* advanced by hand at any moment, before and while the operation runs.    *)
(***************************************************************************)
\* largest pass count the operator sets
MaxPasses == 3

SetNumPasses ==
    /\ lastCall # "init"
    /\ \E passes \in 1 .. MaxPasses :
           Commit([Cur EXCEPT !.op = setNumPasses(@, passes)], lastCall)

NextPasses ==
    \/ EnterShortJob
    \/ SetNumPasses
    \/ JobStart
    \/ ThreadEncoderTurn
    \/ StepUpdate
    \/ JobOpUpdate
    \/ AdvancePass

SpecPasses == Init /\ [][NextPasses]_vars

(***************************************************************************)
(* SpecEncoder: the spindle tracker with the encoder hardware counting     *)
(* while update() runs.  The last encoder tick of the pre-state may have   *)
(* arrived after update() read the counter.                                *)
(***************************************************************************)
LateTicks == {-1, 1}

MotionUpdateLate ==
    \E late \in LateTicks, dueX, dueZ \in BOOLEAN :
        /\ Abs(pcntCount - late) <= PCNT_LIM
        /\ InWindow(pendingSpindlePosition(pcntCount - late))
        /\ Commit(updateLate(Cur, late, dueX, dueZ), "update:late")

NextEncoder ==
    \/ SpindleTurn
    \/ MotionUpdate
    \/ MotionUpdateLate
    \/ ResetSpindlePosition

SpecEncoder == Init /\ [][NextEncoder]_vars

(***************************************************************************)
(* SpecSpeed: the speed ramp of the axes.  The Z axis is jogged, update()   *)
(* is called whenever a step is due, and the speed limit is changed at any  *)
(* moment.                                                                 *)
(***************************************************************************)
\* update() with the speed fields: updateAxisMotion (lines 232-258) and
\* updateSpeed (lines 260-271) for every enabled axis
SpeedTick ==
    LET m == update(Cur, TRUE, TRUE)
        stepsToGo(axis) == m.axes[axis].targetPosition - axes[axis].position
        ramped(s) ==
            IF s.currentSpeed < s.maxSpeed
              THEN [s EXCEPT !.currentSpeed =
                       Min(@ + s.acceleration \div @, s.maxSpeed)]
              ELSE s
        slowed(s) ==
            IF s.currentSpeed > s.startSpeed
              THEN [s EXCEPT !.currentSpeed = @ - 1] ELSE s
        after(axis) ==
            IF emergencyStop \/ ~axes[axis].enabled THEN speed[axis]
            ELSE IF stepsToGo(axis) = 0 THEN slowed(speed[axis])
            ELSE ramped(speed[axis])
    IN  /\ \A axis \in AxisIds : after(axis).currentSpeed <= SPEED_START + MaxRamp
        /\ emergencyStop' = m.emergencyStop
        /\ axes' = m.axes
        /\ spindle' = m.spindle
        /\ pcntCount' = m.pcntCount
        /\ op' = m.op
        /\ speed' = [axis \in AxisIds |-> after(axis)]
        /\ UNCHANGED <<lastCall, ring, queued>>

\* setMaxSpeed with the start speed or the default limit
SetMaxSpeed ==
    \E axis \in AxisIds, limit \in {SPEED_START, SPEED_MANUAL_MOVE} :
        /\ speed' = [speed EXCEPT ![axis].maxSpeed = limit]
        /\ UNCHANGED <<emergencyStop, axes, spindle, pcntCount, op, lastCall,
                       ring, queued>>

SpecSpeed ==
    Init /\ [][\/ EnableAxis
               \/ (MoveRelative /\ axes'[AXIS_X] = axes[AXIS_X])
               \/ SpeedTick
               \/ SetMaxSpeed]_vars

(***************************************************************************)
(* SpecBuffer: CircularBuffer<T, N> with its producer, an interrupt        *)
(* handler that calls push(), and its consumer, the main loop that calls   *)
(* pop().  The interrupt runs to completion between any two instructions   *)
(* of the main loop; count-- in pop() is a load, a subtraction and a store *)
(* of the volatile count, so pop() takes two steps.  The producer offers   *)
(* the items 1, 2, ... in this order; ring.popped lists what pop() has     *)
(* returned.  (head + 1) & mask is (head + 1) % N, N being a power of two. *)
(***************************************************************************)
push ==
    /\ ring.pushed < MaxPushes
    /\ ring' = IF ring.count >= BufferSize THEN ring
               ELSE [ring EXCEPT !.buffer[ring.head] = ring.pushed + 1,
                                 !.head = (@ + 1) % BufferSize,
                                 !.count = @ + 1,
                                 !.peakCount = Max(@, ring.count + 1),
                                 !.pushed = @ + 1]
    /\ UNCHANGED <<emergencyStop, axes, spindle, pcntCount, op, lastCall, speed, queued>>

\* pop() up to the load of count for count-- (lines 76-89)
popTake ==
    /\ ~ring.popping
    /\ ring' = IF ring.count = 0 THEN ring
               ELSE [ring EXCEPT !.popped = Append(@, ring.buffer[ring.tail]),
                                 !.tail = (@ + 1) % BufferSize,
                                 !.loaded = ring.count,
                                 !.popping = TRUE]
    /\ UNCHANGED <<emergencyStop, axes, spindle, pcntCount, op, lastCall, speed, queued>>

\* the store of count-- and the return of pop() (lines 89-91)
popStore ==
    /\ ring.popping
    /\ ring' = [ring EXCEPT !.count = ring.loaded - 1, !.popping = FALSE]
    /\ UNCHANGED <<emergencyStop, axes, spindle, pcntCount, op, lastCall, speed, queued>>

SpecBuffer == Init /\ [][push \/ popTake \/ popStore]_vars

(***************************************************************************)
(* SpecQueued: the queued MotionControl variant after initialize(), which  *)
(* enables both axes.  Commands are relative moves and stops, not          *)
(* blocking, with timestamp 0.  queued.running[axis] is isRunning() of the *)
(* stepper of the axis: executeCommand (lines 302-366) starts it for a     *)
(* move and force-stops it for CMD_STOP, if the axis is enabled.           *)
(***************************************************************************)
\* queueCommand (immediate = FALSE) and executeImmediate (immediate = TRUE)
SendCommand ==
    \E type \in {"MOVE", "STOP"}, axis \in AxisIds, immediate \in BOOLEAN :
        /\ immediate \/ Len(queued.commandQueue) < MaxQueue
        /\ queued' =
              IF queued.emergencyStop THEN queued
              ELSE IF immediate
                THEN [queued EXCEPT !.running[axis] =
                         IF queued.enabled[axis] THEN type = "MOVE" ELSE @]
                ELSE [queued EXCEPT !.commandQueue =
                         Append(@, [type |-> type, axis |-> axis])]
        /\ UNCHANGED <<emergencyStop, axes, spindle, pcntCount, op, lastCall, speed, ring>>

\* setEmergencyStop: the flag is assigned first, then stopAll() sends a stop
\* for each axis through executeImmediate, then the queue is cleared
QueuedEmergencyStop ==
    \E stop \in BOOLEAN :
        /\ queued' =
              IF ~stop THEN [queued EXCEPT !.emergencyStop = FALSE]
              ELSE LET q1 == [queued EXCEPT !.emergencyStop = TRUE]
                       \* stopAxis(axis): executeImmediate of a stop command
                       stopped(q, axis) ==
                           IF q.emergencyStop THEN q
                           ELSE [q EXCEPT !.running[axis] =
                                    IF q.enabled[axis] THEN FALSE ELSE @]
                   IN  [stopped(stopped(q1, AXIS_X), AXIS_Z) EXCEPT !.commandQueue = <<>>]
        /\ UNCHANGED <<emergencyStop, axes, spindle, pcntCount, op, lastCall, speed, ring>>

\* update: processCommandQueue executes and removes every waiting command
\* unless the emergency stop is set; then stopAll() if it is set.  After the
\* queue has run, an enabled axis is as its last command left it.
QueuedUpdate ==
    LET queue == queued.commandQueue
        for(axis) == {i \in 1 .. Len(queue) : queue[i].axis = axis}
        last(axis) == CHOOSE i \in for(axis) : \A j \in for(axis) : j <= i
    IN  /\ queued' =
              IF queued.emergencyStop THEN queued
              ELSE [queued EXCEPT
                      !.commandQueue = <<>>,
                      !.running = [axis \in AxisIds |->
                          IF for(axis) # {} /\ queued.enabled[axis]
                            THEN queue[last(axis)].type = "MOVE"
                            ELSE queued.running[axis]]]
        /\ UNCHANGED <<emergencyStop, axes, spindle, pcntCount, op, lastCall, speed, ring>>

SpecQueued == Init /\ [][SendCommand \/ QueuedEmergencyStop \/ QueuedUpdate]_vars

(***************************************************************************)
(* Properties                                                              *)
(***************************************************************************)
Machine == <<emergencyStop, axes, spindle, pcntCount, op>>

Targets == [i \in AxisIds |-> axes[i].targetPosition]

Positions == [i \in AxisIds |-> axes[i].position]

\* a tick of either update function, or a movement of the encoder
Tick == MotionUpdate \/ OpUpdate \/ EncoderTurn

\* C1: when setEmergencyStop(true) has returned, whatever the state before the
\* call, each axis has targetPosition = position and moving = FALSE, and
\* threading is disabled.
C1_EmergencyStopHaltsAxes ==
    lastCall = "setEmergencyStop(true)" =>
        /\ \A i \in AxisIds :
               axes[i].targetPosition = axes[i].position /\ ~axes[i].moving
        /\ ~spindle.threadingActive

\* the stop was raised during the cutting sub-state of a pass, with Z off its origin
C1_Witness ==
    /\ lastCall = "setEmergencyStop(true)"
    /\ op.currentState = "RUNNING"
    /\ op.passSubState = "CUTTING"
    /\ axes[AXIS_Z].position # op.touchOffZ

\* C2: a setEmergencyStop(true) call made while an operation is Running leaves
\* the workflow state Idle, currentPass 0 and the pass sub-state MoveToStart
\* when it returns.
C2_EmergencyStopResetsWorkflow ==
    [][(op.currentState = "RUNNING" /\ lastCall' = "setEmergencyStop(true)"
          /\ SetEmergencyStopOn)
          => (/\ op'.currentState = "IDLE"
              /\ op'.currentPass = 0
              /\ op'.passSubState = "MOVE_TO_START")]_vars

\* C3: while the emergency flag is set, a call of MinimalMotionControl::update
\* or of OperationManager::update changes no axis, spindle or operation field.
C3_TicksAreNoOpsWhileStopped ==
    [][(emergencyStop /\ (MotionUpdate \/ OpUpdate)) => UNCHANGED Machine]_vars

\* C4: after setEmergencyStop(true) directly followed by
\* setEmergencyStop(false), the next tick moves no axis and leaves no
\* operation Running.
C4_ReleaseDoesNotResume ==
    [][(lastCall = "setEmergencyStop(true);setEmergencyStop(false)"
          /\ (MotionUpdate \/ OpUpdate))
          => (Positions' = Positions /\ op'.currentState # "RUNNING")]_vars

InsideEnvelope(ax) == ax.rightStop <= ax.position /\ ax.position <= ax.leftStop

\* C5: with every axis inside its soft-limit envelope, a setTargetPosition,
\* moveRelative or update() call leaves every axis inside its envelope.
C5_PositionsStayInEnvelope ==
    [][((\A i \in AxisIds : InsideEnvelope(axes[i]))
          /\ (SetTargetPosition \/ MoveRelative \/ MotionUpdate))
          => (\A i \in AxisIds : InsideEnvelope(axes'[i]))]_vars

Clamp(v, lo, hi) == IF v < lo THEN lo ELSE IF v > hi THEN hi ELSE v

\* C6: setTargetPosition(axis, steps) stores steps clamped to
\* [rightStop, leftStop] as the target of the axis and changes nothing else.
C6_SetTargetClamps ==
    [][SetTargetPosition =>
          \E axis \in AxisIds, steps \in -MaxTarget .. MaxTarget :
              axes' = [axes EXCEPT ![axis].targetPosition =
                          Clamp(steps, axes[axis].rightStop, axes[axis].leftStop)]]_vars

\* C7: startOperation() called when the state is not READY, or when the X and
\* Z touch-off are not both valid, returns false and changes no field.
C7_StartRejectedUnlessReady ==
    [][(~(op.currentState = "READY" /\ op.touchOffXValid /\ op.touchOffZValid)
          /\ lastCall' \in {"startOperation:true", "startOperation:false"}
          /\ StartOperation)
          => (lastCall' = "startOperation:false" /\ UNCHANGED Machine)]_vars

\* a start was rejected in READY because a touch-off is missing
C7_Witness ==
    /\ lastCall = "startOperation:false"
    /\ op.currentState = "READY"
    /\ ~(op.touchOffXValid /\ op.touchOffZValid)

\* C8: a startOperation() call in READY with both touch-offs valid and
\* cutLength = 0 or cutDepth = 0, in a mode other than Normal and Cone, that
\* returns false has changed no field, cutLength and cutDepth included.
C8_RejectedStartChangesNothing ==
    [][(op.currentState = "READY" /\ hasTouchOff(op)
          /\ op.currentMode \notin {"NORMAL", "CONE"}
          /\ (op.cutLength = 0 \/ op.cutDepth = 0)
          /\ lastCall' = "startOperation:false"
          /\ StartOperation)
          => UNCHANGED Machine]_vars

\* C9: in turning mode an operation starts with currentPass = 0; while it runs
\* currentPass only ever grows by one, up to numPasses - 1, and update() makes
\* it grow exactly when SUBSTATE_RETURNING completes; when the pass
\* numPasses - 1 completes the state becomes IDLE with every target pinned and
\* threading off, and from an idle state with threading off no tick changes
\* an axis target.
C9_PassesInOrder ==
    [][/\ (lastCall' = "startOperation:true" /\ lastCall # lastCall')
              => op'.currentPass = 0
       /\ (op.currentState = "RUNNING" /\ op'.currentState = "RUNNING"
             /\ op'.currentPass # op.currentPass)
              => (op'.currentPass = op.currentPass + 1
                    /\ op'.currentPass <= op.numPasses - 1)
       /\ (lastCall' = "opUpdate:nextPass" /\ OpUpdate)
              => (op.passSubState = "RETURNING"
                    /\ op'.currentPass = op.currentPass + 1
                    /\ op'.passSubState = "MOVE_TO_START")
       /\ (op.currentState = "RUNNING" /\ op.passSubState = "RETURNING"
             /\ op'.passSubState # "RETURNING" /\ OpUpdate)
              => lastCall' \in {"opUpdate:nextPass", "opUpdate:completed"}
       /\ (lastCall' = "opUpdate:completed" /\ OpUpdate)
              => (op.passSubState = "RETURNING"
                    /\ op.currentPass = op.numPasses - 1
                    /\ op'.currentState = "IDLE"
                    /\ Targets' = Positions'
                    /\ ~spindle'.threadingActive)
       /\ (op.currentState = "IDLE" /\ ~spindle.threadingActive /\ Tick)
              => Targets' = Targets]_vars

\* the last pass of a turning operation has completed after the carriage cut
C9_Witness ==
    /\ lastCall = "opUpdate:completed"
    /\ op.currentMode = "TURN"
    /\ axes[AXIS_Z].position # op.touchOffZ

\* C10: the raw and the backlash-compensated spindle position never differ by
\* more than ENCODER_BACKLASH.
C10_BacklashBounded ==
    Abs(spindle.position - spindle.positionAvg) <= ENCODER_BACKLASH

\* after the counter ran into its limit the spindle reversed by the full backlash
C10_Witness ==
    /\ spindle.position >= PCNT_LIM
    /\ spindle.positionAvg - spindle.position = ENCODER_BACKLASH

\* C11: an update() in which the raw spindle position does not decrease never
\* decreases the backlash-compensated position.
C11_ForwardNeverStepsBack ==
    [][(spindle'.position >= spindle.position /\ MotionUpdate)
          => spindle'.positionAvg >= spindle.positionAvg]_vars

\* after a reversal the spindle went forward again and the compensated
\* position caught up with the raw one below zero
C11_Witness ==
    /\ spindle.position < 0
    /\ spindle.positionAvg = spindle.position
    /\ pcntCount = spindle.lastCount

\* a run of updates: before each one the encoder has turned by the next
\* element of the run; the result is <<spindle, pcntCount>> after the last
RECURSIVE AfterRun(_, _, _)
AfterRun(sp, count, run) ==
    IF run = <<>> THEN <<sp, count>>
    ELSE LET tr == SpindleTracked(sp, count + Head(run))
         IN  AfterRun(tr[1], tr[2], Tail(run))

\* the hardware counter stays within its limits during the run
RECURSIVE RunFits(_, _, _)
RunFits(sp, count, run) ==
    \/ run = <<>>
    \/ /\ Abs(count + Head(run)) <= PCNT_LIM
       /\ LET tr == SpindleTracked(sp, count + Head(run))
          IN  RunFits(tr[1], tr[2], Tail(run))

RECURSIVE RunLength(_)
RunLength(run) == IF run = <<>> THEN 0 ELSE Abs(Head(run)) + RunLength(Tail(run))

ReverseDeltas == {-4, -1}

ReverseRuns == UNION {[1 .. n -> ReverseDeltas] : n \in 1 .. MaxRun}

Gap(sp) == sp.positionAvg - sp.position

\* C12: after every run of updates that each see the spindle go backward,
\* with more than ENCODER_BACKLASH ticks in total, positionAvg is exactly
\* ENCODER_BACKLASH above position; every longer reverse run is such a run
\* too, so the gap stays there for every further reverse tick.
C12_ReverseLagsByBacklash ==
    pcntCount = spindle.lastCount =>
        \A run \in ReverseRuns :
            (RunLength(run) > ENCODER_BACKLASH /\ RunFits(spindle, pcntCount, run))
                => Gap(AfterRun(spindle, pcntCount, run)[1]) = ENCODER_BACKLASH

\* the compensated position has caught up with the raw one, the counter is
\* four ticks from its lower limit, and a reverse run of single ticks runs
\* through the limit and opens the gap to the backlash
C12_Witness ==
    /\ pcntCount = spindle.lastCount
    /\ pcntCount = 4 - PCNT_LIM
    /\ Gap(spindle) = 0
    /\ LET run == <<-1, -1, -1, -1, -1>>
       IN  /\ RunFits(spindle, pcntCount, run)
           /\ Gap(AfterRun(spindle, pcntCount, run)[1]) = ENCODER_BACKLASH
           /\ Gap(AfterRun(spindle, pcntCount, <<-1, -1>>)[1]) < ENCODER_BACKLASH

\* the encoder ticks since the last reset that the tracker has counted or
\* that wait in the hardware counter
EncoderTotal == spindle.position + (pcntCount - spindle.lastCount)

\* C13: however encoder ticks interleave with update(), the counter clear at
\* +-30000 included, no update loses a tick or counts one twice: the ticks
\* counted plus the ticks waiting in the counter stay the same across it.
C13_NoTickLost ==
    [][(MotionUpdate \/ (lastCall' = "update:late" /\ MotionUpdateLate))
          => EncoderTotal' = EncoderTotal]_vars

\* C14: a threading operation started with two thread starts selected has
\* startOffset = ENCODER_STEPS_INT / 2 = 600, and the spindle reference that
\* the SYNC_SPINDLE step of pass k stores is the spindle position shifted by
\* startOffset * k.
C14_StartsShiftSyncReference ==
    [][/\ (op.currentMode = "THREAD" /\ spindle.threadStarts = 2
              /\ lastCall' = "startOperation:true" /\ StartOperation)
              => op'.startOffset = ENCODER_STEPS_INT \div 2
       /\ (op.currentMode = "THREAD" /\ op.currentState = "RUNNING"
              /\ op.passSubState = "SYNC_SPINDLE" /\ op'.passSubState = "CUTTING"
              /\ OpUpdate)
              => op'.spindleSyncPos
                    = spindle.position + op.startOffset * op.currentPass]_vars

\* C15: a startOperation() that returns true in Turn, Face, Cut or Thread
\* mode leaves threadPitch with the magnitude it had and with the sign of the
\* direction (positive left-to-right, negative right-to-left), and leaves the
\* workflow RUNNING in SUBSTATE_MOVE_TO_START with currentPass = 0.
C15_StartSetsPitchSign ==
    [][(op.currentMode \in {"TURN", "FACE", "CUT", "THREAD"}
          /\ lastCall' = "startOperation:true" /\ StartOperation)
          => (/\ spindle'.threadPitch
                    = Abs(spindle.threadPitch) * (IF op.isLeftToRight THEN 1 ELSE -1)
              /\ op'.currentState = "RUNNING"
              /\ op'.passSubState = "MOVE_TO_START"
              /\ op'.currentPass = 0)]_vars

\* a facing operation has been started left-to-right
C15_Witness ==
    /\ lastCall = "startOperation:true"
    /\ op.currentMode = "FACE"
    /\ op.isLeftToRight
    /\ spindle.threadPitch > 0

\* the axis targets after the encoder has turned by d ticks, update() has
\* read the counter (no step is due) and OperationManager::update has run
TargetsAfterTurn(d) ==
    LET m == opUpdate(update([Cur EXCEPT !.pcntCount = @ + d], FALSE, FALSE))
    IN  [i \in AxisIds |-> m.axes[i].targetPosition]

\* C16: while an operation runs, the axis targets follow the spindle through
\* the backlash-compensated position only: when the spindle turns back by at
\* most ENCODER_BACKLASH ticks from a position the compensated value has
\* caught up with, the next ticks set the same targets as without the
\* reversal.
C16_TargetsFollowCompensated ==
    (/\ op.currentState = "RUNNING"
     /\ pcntCount = spindle.lastCount
     /\ spindle.position = spindle.positionAvg
     /\ ~emergencyStop)
        => \A r \in 1 .. ENCODER_BACKLASH : TargetsAfterTurn(-r) = TargetsAfterTurn(0)

\* spindleTicks * motorSteps * dupr * starts / (screwPitch * ENCODER_STEPS),
\* truncated; both ratios are reduced first to keep the products small
ExactSteps(axis, t) ==
    LET g1 == GCD(motorSteps(axis), screwPitch(axis))
        g2 == GCD(Abs(spindle.threadPitch), ENCODER_STEPS_INT)
    IN  TruncDiv(t * (motorSteps(axis) \div g1)
                     * (spindle.threadPitch \div g2) * spindle.threadStarts,
                 (screwPitch(axis) \div g1) * (ENCODER_STEPS_INT \div g2))

Unclamped(axis, steps) ==
    axes[axis].rightStop <= steps /\ steps <= axes[axis].leftStop

OneRevolutionTicks == {t \in MappingTicks : Abs(t) <= ENCODER_STEPS_INT}

\* C17: where no soft limit clamps, positionFromSpindle and posFromSpindle
\* return spindleTicks * motorSteps * dupr * starts / (screwPitch * 1200) to
\* within one step; one revolution with dupr = screwPitch and one start gives
\* motorSteps steps.
C17_MappingKeepsUnits ==
    \A axis \in AxisIds :
        /\ \A t \in OneRevolutionTicks :
               Unclamped(axis, ExactSteps(axis, t))
                  => /\ Abs(positionFromSpindle(axis, t) - ExactSteps(axis, t)) <= 1
                     /\ Abs(posFromSpindle(spindle, axis, t) - ExactSteps(axis, t)) <= 1
        /\ (spindle.threadPitch = screwPitch(axis) /\ spindle.threadStarts = 1
               /\ Unclamped(axis, motorSteps(axis)))
              => /\ positionFromSpindle(axis, ENCODER_STEPS_INT) = motorSteps(axis)
                 /\ posFromSpindle(spindle, axis, ENCODER_STEPS_INT) = motorSteps(axis)

\* the int32 product axisPos * screwPitch of spindleFromPosition overflows
ProductOverflows(axis, axisPos) == Abs(axisPos) > LONG_MAX \div screwPitch(axis)

\* |ticks| is less than the spindle ticks that correspond to one axis step,
\* screwPitch * ENCODER_STEPS / (motorSteps * |dupr| * starts)
LessThanOneStep(axis, ticks) ==
    LET g == GCD(screwPitch(axis) * ENCODER_STEPS_INT, motorSteps(axis))
    IN  Abs(ticks) * (motorSteps(axis) \div g) * Abs(spindle.threadPitch)
            * spindle.threadStarts
          < (screwPitch(axis) * ENCODER_STEPS_INT) \div g

\* C18: with a pitch other than 0, for every spindle tick count t of the
\* range whose image lies strictly between the soft limits,
\* spindleFromPosition(positionFromSpindle(t)) is defined and differs from t
\* by less than the spindle ticks of one axis step.
C18_RoundTripWithinOneStep ==
    spindle.threadPitch # 0 =>
        \A axis \in AxisIds, t \in MappingTicks :
            LET steps == positionFromSpindle(axis, t)
            IN  (axes[axis].rightStop < steps /\ steps < axes[axis].leftStop)
                   => /\ ~ProductOverflows(axis, steps)
                      /\ LessThanOneStep(axis, spindleFromPosition(axis, steps) - t)

\* C19: in the single-pass job (20.000 mm -> 18.000 mm over 30.000 mm,
\* right-to-left) the setup computes cutDepth = 1000 X steps and a cutLength
\* of 24000 Z steps; once the cutting pass has set the X target 1000 steps
\* below touchOffX the target stays there for as long as the pass cuts, and
\* the pass ends with Z 24000 steps from touchOffZ.
C19_SinglePassTurn ==
    [][/\ lastCall' = "jobSetup"
              => (op'.cutDepth = 1000 /\ Abs(op'.cutLength) = 24000)
       /\ (/\ op.currentState = "RUNNING" /\ op.passSubState = "CUTTING"
           /\ op'.currentState = "RUNNING"
           /\ axes[AXIS_X].targetPosition = op.touchOffX - 1000)
              => axes'[AXIS_X].targetPosition = op.touchOffX - 1000
       /\ (/\ op.currentState = "RUNNING" /\ op.passSubState = "CUTTING"
           /\ op'.passSubState = "RETRACTING")
              => Abs(axes'[AXIS_Z].position - op.touchOffZ) = 24000]_vars

\* C20: in Turn, Face, Cut, Thread and Cone modes, while a touch-off is
\* missing no step takes the setup from Idle to a parameter-entry state and
\* no step leaves it in Ready.
C20_TouchOffsGateSetup ==
    [][(op'.currentMode \in SetupModes /\ ~hasTouchOff(op'))
          => /\ op.currentState = "IDLE"
                   => op'.currentState \notin {"TARGET_DIAMETER", "TARGET_LENGTH",
                                               "SETUP_PASSES", "SETUP_STARTS",
                                               "SETUP_CONE"}
             /\ op'.currentState # "READY"]_vars

\* one request of the operator in a parameter-entry state
EntryRequests == {"confirm", "next", "clear"}

EntryRequest(m, r) ==
    CASE r = "confirm" -> confirmParameterValue(m)
      [] r = "next" -> [m EXCEPT !.op = nextSetupStep(@)]
      [] r = "clear" -> [m EXCEPT !.op = clearCurrentInput(@)]

\* n further requests keep the workflow in the entry state st until one
\* returns it to Idle
RECURSIVE StaysInEntry(_, _, _)
StaysInEntry(m, st, n) ==
    \/ n = 0
    \/ \A r \in EntryRequests :
          LET m1 == EntryRequest(m, r)
          IN  \/ m1.op.currentState = "IDLE"
              \/ m1.op.currentState = st /\ StaysInEntry(m1, st, n - 1)

\* C21: in a parameter-entry state (target length, passes, starts, cone
\* ratio) with an empty numpad, confirm, next-step and clear-input requests
\* in any order leave the workflow in that state or return it to Idle.
C21_EmptyEntryDoesNotAdvance ==
    (/\ op.currentState \in {"TARGET_LENGTH", "SETUP_PASSES", "SETUP_STARTS", "SETUP_CONE"}
     /\ op.inNumpadInput
     /\ op.numpad = <<>>)
        => StaysInEntry(Cur, op.currentState, 3)

\* C22: setMode(mode), for every mode and from every state, leaves the
\* touch-off fields and the target fields reset (hasTouchOff() false, both
\* targets 0), and a successful startOperation() leaves the pass counter 0.
C22_ModeChangeResetsJob ==
    /\ \A mode \in SetupModes \cup {"NORMAL", "ELLIPSE", "GCODE"} :
          LET o == setMode(Cur, mode).op
          IN  /\ ~hasTouchOff(o)
              /\ ~o.touchOffXValid /\ ~o.touchOffZValid
              /\ o.touchOffX = 0 /\ o.touchOffZ = 0
              /\ o.touchOffXCoord = 0 /\ o.touchOffZCoord = 0
              /\ o.targetDiameter = 0 /\ o.targetZLength = 0
    /\ LET r == startOperation(Cur)
       IN  r[2] => r[1].op.currentPass = 0

\* C23: Normal mode starts without touch-off or ready gating (a start
\* requested in Normal mode once the setup step is taken succeeds, touch-off
\* or not), and every tick while it is Running sets the Z target to the
\* mapping of the live spindle position and runs no pass sub-state logic.
C23_NormalModeUngated ==
    op.currentMode = "NORMAL" =>
        /\ op.currentState = "READY" => startOperation(Cur)[2]
        /\ op.currentState = "RUNNING" =>
              LET m == opUpdate(Cur)
              IN  /\ m.axes[AXIS_Z].targetPosition
                        = positionFromSpindle(AXIS_Z, spindle.position)
                  /\ m.axes[AXIS_X] = axes[AXIS_X]
                  /\ m.op = op

\* C24: stopOperation(), from any state, leaves the workflow Idle, both
\* axis targets equal to the axes' positions, the spindle sync disabled, and
\* every axis position as it was.
C24_StopPinsTargets ==
    [][StopOperation =>
          /\ op'.currentState = "IDLE"
          /\ ~spindle'.threadingActive
          /\ \A axis \in AxisIds :
                /\ axes'[axis].targetPosition = axes[axis].position
                /\ axes'[axis].position = axes[axis].position]_vars

\* a running operation, its Z axis away from the origin, has been stopped
C24_Witness ==
    /\ lastCall = "stopOperation:running"
    /\ op.currentState = "IDLE"
    /\ ~spindle.threadingActive
    /\ axes[AXIS_Z].position # 0
    /\ axes[AXIS_Z].targetPosition = axes[AXIS_Z].position

\* C25: an axis position changes only in update(): every other call leaves
\* both positions as they are, one update() moves each axis by at most one
\* step, and a step goes one toward the target the axis has in that update.
C25_PositionOnlySteps ==
    [][\A axis \in AxisIds :
          /\ Abs(axes'[axis].position - axes[axis].position) <= 1
          /\ axes'[axis].position # axes[axis].position =>
                /\ MotionUpdate
                /\ axes'[axis].targetPosition # axes[axis].position
                /\ Sgn(axes'[axis].position - axes[axis].position)
                      = Sgn(axes'[axis].targetPosition - axes[axis].position)]_vars

\* a caller has set a new target for an axis that had stepped away from the
\* origin, and the axis is where it was
C25_Witness ==
    /\ lastCall = "setTargetPosition"
    /\ \E axis \in AxisIds :
          /\ axes[axis].position # 0
          /\ Abs(axes[axis].targetPosition - axes[axis].position) > 1

\* C26: disableAxis(axis) leaves the axis with moving = FALSE and its
\* position unchanged, and enableAxis(axis) changes no position.
C26_DisableStopsMotion ==
    [][\A axis \in AxisIds :
          /\ (axes' = disableAxis(Cur, axis).axes /\ DisableAxis) =>
                /\ ~axes'[axis].moving
                /\ axes'[axis].position = axes[axis].position
          /\ (axes' = enableAxis(Cur, axis).axes /\ EnableAxis) =>
                axes'[axis].position = axes[axis].position]_vars

\* C27: between any two calls, isMoving(axis) is true exactly when the
\* position of the axis differs from its target.
C27_MovingIsDerived ==
    \A axis \in AxisIds :
        axes[axis].moving <=> (axes[axis].position # axes[axis].targetPosition)

\* C28: for every x, setTargetPosition(axis, x) followed by
\* setTargetPosition(axis, getTargetPosition(axis)) leaves the same target,
\* and the same controller state, as setTargetPosition(axis, x) alone.
C28_SetTargetIdempotent ==
    \A axis \in AxisIds, x \in (-MaxTarget - 1) .. (MaxTarget + 1) :
        LET once == setTargetPosition(Cur, axis, x)
            twice == setTargetPosition(once, axis, once.axes[axis].targetPosition)
        IN  /\ twice.axes[axis].targetPosition = once.axes[axis].targetPosition
            /\ twice = once

\* soft limits are set and a target outside them has been requested
C28_Witness ==
    /\ lastCall = "setTargetPosition"
    /\ \E axis \in AxisIds :
          /\ axes[axis].leftStop < LONG_MAX
          /\ axes[axis].targetPosition > axes[axis].leftStop

\* one change of the pass sub-state, from operation o to operation o1, that
\* follows the order of a pass
InPassOrder(o, o1) ==
    \/ o1.currentState = "RUNNING" /\ o1.currentPass = o.currentPass
         /\ <<o.passSubState, o1.passSubState>> \in
                {<<"MOVE_TO_START", "SYNC_SPINDLE">>, <<"SYNC_SPINDLE", "CUTTING">>,
                 <<"CUTTING", "RETRACTING">>, <<"RETRACTING", "RETURNING">>}
    \/ o1.currentState = "RUNNING" /\ o1.currentPass = o.currentPass + 1
         /\ o.passSubState = "RETURNING" /\ o1.passSubState = "MOVE_TO_START"
    \/ o1.currentState = "IDLE" /\ o.passSubState = "RETURNING"

\* the next n calls of OperationManager::update and advancePass, in any
\* order, change the pass sub-state only in the order of a pass
RECURSIVE PassOrderKept(_, _)
PassOrderKept(m, n) ==
    \/ n = 0
    \/ m.op.currentState # "RUNNING"
    \/ \A m1 \in {opUpdate(m), [m EXCEPT !.op = advancePass(@)]} :
          /\ \/ (m1.op.currentState = "RUNNING"
                    /\ m1.op.passSubState = m.op.passSubState
                    /\ m1.op.currentPass = m.op.currentPass)
             \/ InPassOrder(m.op, m1.op)
          /\ PassOrderKept(m1, n - 1)

\* C29: while an operation is Running in a pass mode, the pass sub-state
\* changes only along MoveToStart -> SyncSpindle -> Cutting -> Retracting ->
\* Returning -> (MoveToStart of the next pass | Idle).
C29_SubStatesInOrder ==
    (op.currentState = "RUNNING" /\ op.currentMode \in {"TURN", "FACE", "THREAD", "CUT"})
        => PassOrderKept(Cur, 6)

\* C30: a turning operation started with valid touch-offs, non-zero
\* cutLength and cutDepth, both axes enabled and no emergency stop, with the
\* spindle turning in the cutting direction and the ticks scheduled fairly,
\* eventually reaches Idle.
C30_TurningTerminates ==
    (/\ lastCall = "startOperation:true"
     /\ axes[AXIS_X].enabled /\ axes[AXIS_Z].enabled
     /\ ~emergencyStop)
        ~> (op.currentState = "IDLE")

\* C31: while Running in MoveToStart, Retracting or Returning, a call of
\* MinimalMotionControl::update leaves the target of every axis as the
\* operation state machine wrote it: the axis steps toward that target.
C31_CommandedTargetKept ==
    [][(/\ op.currentState = "RUNNING"
        /\ op.passSubState \in {"MOVE_TO_START", "RETRACTING", "RETURNING"}
        /\ StepUpdate)
          => \A axis \in AxisIds :
                axes'[axis].targetPosition = axes[axis].targetPosition]_vars

\* C32: a Cutting tick of a turning or threading pass sets the Z target to
\* touchOffZ plus the synchronizer image of the spindle displacement since
\* spindleSyncPos was taken; with no displacement the Z target is touchOffZ.
C32_CutStartsWithoutJump ==
    [][(/\ op.currentState = "RUNNING"
        /\ op.passSubState = "CUTTING"
        /\ op.currentMode \in {"TURN", "THREAD"}
        /\ JobOpUpdate)
          => axes'[AXIS_Z].targetPosition
               = op.touchOffZ + (positionFromSpindle(AXIS_Z, spindle.position)
                                 - positionFromSpindle(AXIS_Z, op.spindleSyncPos))]_vars

\* confirmations the operator makes in one thread setup
MaxConfirms == 6

\* the machine after n rounds of typing a digit and confirming it
RECURSIVE AfterConfirms(_, _, _)
AfterConfirms(m, digit, n) ==
    IF n = 0 THEN m
    ELSE AfterConfirms(confirmParameterValue([m EXCEPT !.op = numpadPress(@, digit)]),
                       digit, n - 1)

\* C33: in Thread mode, from Idle with both touch-offs valid, opening the
\* setup and confirming a typed value at each prompt visits the starts-count
\* entry state and reaches Ready within MaxConfirms confirmations.
C33_ThreadSetupReachesReady ==
    (op.currentMode = "THREAD" /\ op.currentState = "IDLE" /\ hasTouchOff(op))
        => \A digit \in 1..9 :
              LET m0 == [Cur EXCEPT !.op = nextSetupStep(@)]
              IN  /\ \E n \in 0..MaxConfirms :
                        AfterConfirms(m0, digit, n).op.currentState = "SETUP_STARTS"
                  /\ \E n \in 0..MaxConfirms :
                        AfterConfirms(m0, digit, n).op.currentState = "READY"

\* radial depth of pass p: cutDepth * (p + 1) / numPasses in integer arithmetic
PassDepth(o, p) == TruncDiv(o.cutDepth * (p + 1), o.numPasses)

SetupCalls(m) ==
    {startTouchOffX(m), startTouchOffZ(m),
     confirmTouchOffValue(m), confirmParameterValue(m),
     [m EXCEPT !.op = startTargetDiameterEntry(@)],
     [m EXCEPT !.op = confirmTargetValue(@)],
     [m EXCEPT !.op = advanceSetupIndex(@)]}
      \cup {[m EXCEPT !.op = startParameterEntry(@, st)] :
               st \in {"TARGET_DIAMETER", "TARGET_LENGTH", "SETUP_PASSES",
                       "SETUP_STARTS", "SETUP_CONE"}}

\* C35: spindle synchronization is active only while the operation is
\* Running, and no setup call moves the workflow out of Running.
C35_SyncOnlyWhileRunning ==
    /\ spindle.threadingActive => op.currentState = "RUNNING"
    /\ op.currentState = "RUNNING"
          => \A m1 \in SetupCalls(Cur) : m1.op.currentState = "RUNNING"

\* C36: while the operation is Running the pass counter stays inside the
\* pass count: 0 <= currentPass <= numPasses - 1 and numPasses >= 1.
C36_PassCounterInRange ==
    op.currentState = "RUNNING"
        => /\ op.numPasses >= 1
           /\ 0 <= op.currentPass
           /\ op.currentPass <= op.numPasses - 1

\* C37: the current speed of each axis is strictly positive and lies between
\* its start speed and its maximum speed, so the step period
\* 1000000 / currentSpeed is defined and no axis steps faster than its limit.
C37_SpeedWithinLimits ==
    \A axis \in AxisIds :
        /\ speed[axis].currentSpeed > 0
        /\ speed[axis].startSpeed <= speed[axis].currentSpeed
        /\ speed[axis].currentSpeed <= speed[axis].maxSpeed

C39_BufferSafeForOneProducerOneConsumer ==
    ~ring.popping
        => /\ ring.count = ring.pushed - Len(ring.popped)
           /\ ring.count \in 0 .. BufferSize
           /\ ring.popped = [i \in 1 .. Len(ring.popped) |-> i]

\* C40: setEmergencyStop(true) of the queued MotionControl stops both axes
\* within the call and leaves the command queue empty, and while the flag is
\* set queueCommand and executeImmediate reject every command.
C40_EmergencyStopDeliversStop ==
    [][/\ (queued'.emergencyStop /\ QueuedEmergencyStop)
            => /\ \A axis \in AxisIds : ~queued'.running[axis]
               /\ queued'.commandQueue = <<>>
       /\ (queued.emergencyStop /\ SendCommand) => UNCHANGED queued]_vars

====
